---- MODULE Spec2Model ----
(***************************************************************************)
(* State-machine model of sentry.workflow_engine.processors.detector:      *)
(* StatefulDetectorHandler (evaluate / get_state_data /                    *)
(* commit_state_updates) over a redis-like ephemeral store and the         *)
(* DetectorState table, process_detectors, and of                          *)
(* sentry.sentry_apps.token_exchange.grant_exchanger: GrantExchanger.run   *)
(* over the ApiGrant and ApiToken tables.                                  *)
(*                                                                         *)
(* Python values are encoded as follows.                                   *)
(*   Optional[x]   None is <<>>, a present value x is <<x>>.               *)
(*   dict          a sequence of <<key, value>> pairs in insertion order   *)
(*                 (Python dicts keep insertion order; assigning to an     *)
(*                 existing key keeps its position).                       *)
(*   redis value   a string (redis stores bytes) with the time to live it  *)
(*                 was set with; absent keys are absent from the domain of *)
(*                 the store, and a key whose time to live has passed is   *)
(*                 dropped by the store (action KeyExpires).               *)
(*   exception     a call that raises is recorded with error = TRUE and    *)
(*                 changes nothing else.                                   *)
(***************************************************************************)
EXTENDS Integers, Sequences, FiniteSets, TLC

(***************************************************************************)
(* Bounds of the model.                                                    *)
(***************************************************************************)
\* dedupe values of data packets range over 0..MaxDedupe
MaxDedupe == 2
\* at most MaxPending evaluate (or direct enqueue) calls of one handler
\* between two of its commits
MaxPending == 2

(***************************************************************************)
(* Optional values.                                                        *)
(***************************************************************************)
None == <<>>
Some(x) == <<x>>

(***************************************************************************)
(* DetectorPriorityLevel (sentry.workflow_engine.types): an ordered scale  *)
(* with OK as its minimum.                                                 *)
(***************************************************************************)
OK == 0
LOW == 25
HIGH == 75
DetectorPriorityLevel == {OK, LOW, HIGH}

(***************************************************************************)
(* Python dicts as insertion-ordered sequences of <<key, value>> pairs.    *)
(***************************************************************************)
DictKeys(d) == {d[i][1] : i \in DOMAIN d}
DictHas(d, k) == \E i \in DOMAIN d : d[i][1] = k
DictGet(d, k) == d[CHOOSE i \in DOMAIN d : d[i][1] = k][2]
DictSet(d, k, v) ==
    IF DictHas(d, k)
    THEN [i \in DOMAIN d |-> IF d[i][1] = k THEN <<k, v>> ELSE d[i]]
    ELSE Append(d, <<k, v>>)
EmptyDict == <<>>

(***************************************************************************)
(* Inputs.  A group key is a string or None.  A data packet carries one    *)
(* dedupe value and a dict group_key -> observation value.                 *)
(***************************************************************************)
DetectorGroupKeys == {None, Some(""), Some("g1")}

\* the group keys one data source reports: None with the empty string (whose
\* ephemeral keys coincide) and None with an ordinary string
KeyUniverses == {{None, Some("")}, {None, Some("g1")}}

\* observation values: at or below, and above, the thresholds of the conditions
Values == {0, 1}
DedupeValues == 0..MaxDedupe

\* all sequences of distinct elements of S
DistinctSeqs(S) ==
    {q \in UNION {[1..n -> S] : n \in 0..Cardinality(S)} :
        \A i, j \in DOMAIN q : i # j => q[i] # q[j]}

\* the dicts group_key -> value over the keys of universe U
GroupValueDicts(U) ==
    UNION {{[i \in DOMAIN ks |-> <<ks[i], vs[i]>>] : vs \in [DOMAIN ks -> Values]} :
           ks \in DistinctSeqs(U)}

Packets(U) == [dedupe_value : DedupeValues, group_values : GroupValueDicts(U)]

\* the packets and the key lists of each universe, computed once
PacketsOf == [U \in KeyUniverses |-> Packets(U)]
KeyListsOf == [U \in KeyUniverses |-> DistinctSeqs(U)]

\* the packets with at most one group value, which the runs of several
\* handler instances draw from
SmallPacketsOf ==
    [U \in KeyUniverses |-> {p \in Packets(U) : Len(p.group_values) <= 1}]

NoPacket == [dedupe_value |-> 0, group_values |-> EmptyDict]

(***************************************************************************)
(* DataCondition.evaluate_value: an opaque capability value -> priority or *)
(* None.  A condition is modelled as a threshold rule: it returns `result` *)
(* when value > threshold and None otherwise.                              *)
(***************************************************************************)
evaluate_value(condition, value) ==
    IF value > condition.threshold THEN Some(condition.result) ELSE None

Cond(t, r) == [threshold |-> t, result |-> r]

\* (condition_group, conditions) as DetectorHandler.__init__ resolves them
ConditionConfigs ==
    { [condition_group |-> FALSE, conditions |-> <<>>],
      [condition_group |-> TRUE,  conditions |-> <<>>],
      [condition_group |-> TRUE,  conditions |-> <<Cond(0, LOW)>>],
      [condition_group |-> TRUE,  conditions |-> <<Cond(0 - 1, LOW), Cond(0, HIGH)>>] }

CounterNameConfigs == { <<>>, <<"n">> }

Detectors ==
    { [id |-> "1", condition_group |-> c.condition_group,
       conditions |-> c.conditions, counter_names |-> n] :
         c \in ConditionConfigs, n \in CounterNameConfigs }

Handlers == {1, 2}

\* the GrantExchanger instances, all constructed with the same grant code
Exchangers == {1, 2}

\* a GrantExchanger after construction: no run() under way, the cached
\* property `grant` not computed, no token created, no row lock held
NewExchanger ==
    [pc |-> "new", grant |-> None, token |-> FALSE, lock |-> FALSE, runs |-> 0]

VARIABLES
    detector,          \* the Detector all handlers were constructed with
    universe,          \* the group keys the data source reports
    redis,             \* ephemeral store: key -> stored string
    detectorstate_set, \* DetectorState rows of the detector, by detector_group_key
    dedupe_updates,    \* handler -> staged dict group_key -> dedupe value
    counter_updates,   \* handler -> staged dict group_key -> dict name -> value
    state_updates,     \* handler -> staged dict group_key -> <<active, priority>>
    pending,           \* handler -> evaluate calls since its last commit
    txn,               \* handler -> progress of a commit_state_updates call
    last,              \* the most recent call and what it returned
    in_order,          \* the run so far is evaluate, commit, evaluate, commit, ...
                       \* on packets of strictly increasing dedupe values
    apigrant,          \* the committed ApiGrant row of the grant code, or None
    apitoken,          \* the committed ApiToken rows, in commit order
    exchanger,         \* GrantExchanger instance -> progress of its run() calls
    installation,      \* the SentryAppInstallation row of the install exists
    committed          \* the record of the last committed watermarks, where one
                       \* is kept (SpecWatermark): group key -> the dedupe value
                       \* the most recent commit that staged the key has stored
                       \* for it, None while none has; None where none is kept

vars == <<detector, universe, redis, detectorstate_set, dedupe_updates,
          counter_updates, state_updates, pending, txn, last, in_order,
          apigrant, apitoken, exchanger, installation, committed>>

(***************************************************************************)
(* Ephemeral store.                                                        *)
(***************************************************************************)
REDIS_TTL == 604800

build_dedupe_value_key(group_key) ==
    LET gk == IF group_key = None THEN "" ELSE group_key[1]
    IN  detector.id \o ":" \o gk \o ":dedupe_value"

build_counter_value_key(group_key, counter_name) ==
    LET gk == IF group_key = None THEN "" ELSE group_key[1]
    IN  detector.id \o ":" \o gk \o ":" \o counter_name

\* int(b) for the decimal strings the model stores
ParseInt(s) == CHOOSE n \in 0..(MaxDedupe + 1) : ToString(n) = s

\* a stored key is [value, ex]: the string and the time to live it was set with
RedisGet(store, key) == IF key \in DOMAIN store THEN Some(store[key].value) ELSE None

RedisSet(store, key, value, ex) ==
    [k \in (DOMAIN store) \cup {key} |->
        IF k = key THEN [value |-> ToString(value), ex |-> ex] ELSE store[k]]

\* the keys the store drops once their time to live has passed without a write
RedisExpiring(store) == {k \in DOMAIN store : store[k].ex > 0}

RedisDelete(store, key) == [k \in (DOMAIN store) \ {key} |-> store[k]]

\* pipeline.execute(): the queued commands applied in order
RECURSIVE PipelineExecute(_, _)
PipelineExecute(store, cmds) ==
    IF cmds = <<>> THEN store
    ELSE LET c == Head(cmds)
             next == IF c.op = "set" THEN RedisSet(store, c.key, c.value, c.ex)
                     ELSE RedisDelete(store, c.key)
         IN  PipelineExecute(next, Tail(cmds))

\* a pipeline of GETs: one reply per key, in order
PipelineGet(store, keys) == [i \in DOMAIN keys |-> RedisGet(store, keys[i])]

(***************************************************************************)
(* Durable store: the DetectorState rows of the detector.                  *)
(* detectorstate_set[gk] is the sequence of rows whose detector_group_key  *)
(* is gk, in creation order; a row is [active, state].                     *)
(***************************************************************************)
MaxRows(table) ==
    LET lens == {Len(table[gk]) : gk \in DOMAIN table}
    IN  CHOOSE n \in lens : \A m \in lens : m <= n

\* the keys the query filter of bulk_get_detector_state matches
QueryKeys(table, group_keys) ==
    LET not_none == {group_keys[i] : i \in DOMAIN group_keys} \ {None}
        has_none == \E i \in DOMAIN group_keys : group_keys[i] = None
    IN  {gk \in DOMAIN table :
            /\ table[gk] # <<>>
            /\ \/ gk # None /\ gk \in not_none
               \/ has_none /\ gk = None}

\* the dicts bulk_get_detector_state can return: group_key -> index of the row
\* kept for it (the query has no ORDER BY, so with several rows of one key
\* any of them may be the one the dict comprehension keeps)
bulk_get_detector_state(table, group_keys) ==
    LET ks == QueryKeys(table, group_keys)
    IN  {f \in [ks -> 1..MaxRows(table)] : \A gk \in ks : f[gk] \in DOMAIN table[gk]}

(***************************************************************************)
(* StatefulDetectorHandler.get_state_data                                  *)
(***************************************************************************)
IndexOf(seq, x) == CHOOSE i \in DOMAIN seq : seq[i] = x

\* the dict bulk_get_detector_state returns for `lookup`: group_key -> the
\* DetectorState object read from the row
DetectorStates(table, lookup) == [gk \in DOMAIN lookup |-> table[gk][lookup[gk]]]

\* the replies of the pipeline of dedupe GETs, one per group key
DedupeReplies(store, group_keys) ==
    PipelineGet(store,
        [i \in DOMAIN group_keys |-> build_dedupe_value_key(group_keys[i])])

\* the replies of the pipeline of counter GETs (made `if self.counter_names`),
\* group key by group key, the counter names in order
CounterReplies(store, group_keys) ==
    LET names == detector.counter_names
        n == Len(names)
    IN  PipelineGet(store,
            [k \in 1..(Len(group_keys) * n) |->
                build_counter_value_key(group_keys[((k - 1) \div n) + 1],
                                        names[((k - 1) % n) + 1])])

\* what get_state_data makes of the replies of its three store round trips.
\* The result is [error, value]: error is TRUE when the call raises (KeyError
\* at counter_updates[gk] when the detector declares no counter names), value
\* is the returned dict group_key -> DetectorStateData.
StateData(group_keys, detector_states, replies, counter_replies) ==
    LET names == detector.counter_names
        n == Len(names)
        group_key_dedupe_values ==
            [i \in DOMAIN group_keys |->
                IF replies[i] = None \/ replies[i] = Some("") THEN 0
                ELSE ParseInt(replies[i][1])]
        vals == [k \in DOMAIN counter_replies |->
                    IF counter_replies[k] # None
                    THEN Some(ParseInt(counter_replies[k][1])) ELSE None]
        \* chunked(vals, n)[i] zipped with the counter names
        counters(i) == [j \in 1..n |-> <<names[j], vals[(i - 1) * n + j]>>]
        \* `if self.counter_names:` fills the dict, else it stays empty
        counter_keys_present == IF n > 0 THEN {group_keys[i] : i \in DOMAIN group_keys} ELSE {}
        gks == {group_keys[i] : i \in DOMAIN group_keys}
    IN  IF \E gk \in gks : gk \notin counter_keys_present
        THEN [error |-> TRUE, value |-> <<>>]
        ELSE [error |-> FALSE,
              value |->
                [gk \in gks |->
                    LET i == IndexOf(group_keys, gk)
                        has_row == gk \in DOMAIN detector_states
                        row == detector_states[gk]
                    IN  [group_key |-> gk,
                         active |-> IF has_row THEN row.active ELSE FALSE,
                         status |-> IF has_row THEN row.state ELSE OK,
                         dedupe_value |-> group_key_dedupe_values[i],
                         counter_updates |-> counters(i)]]]

\* get_state_data with nothing else running between its round trips;
\* `lookup` is the dict bulk_get_detector_state returned
get_state_data(store, table, lookup, group_keys) ==
    StateData(group_keys, DetectorStates(table, lookup),
              DedupeReplies(store, group_keys), CounterReplies(store, group_keys))

(***************************************************************************)
(* StatefulDetectorHandler.evaluate_group_key_value                        *)
(*                                                                         *)
(* `self` is what the method can reach: the three staged dicts of the      *)
(* handler, the redis client, and the list of results evaluate collects.   *)
(***************************************************************************)
Max(a, b) == IF b > a THEN b ELSE a

\* variant: `status = evaluation`, the last condition that returns wins
RECURSIVE ConditionsStatus_last(_, _, _, _)
ConditionsStatus_last(conditions, i, value, status) ==
    IF i > Len(conditions) THEN status
    ELSE LET evaluation == evaluate_value(conditions[i], value)
         IN  ConditionsStatus_last(conditions, i + 1, value,
                 IF evaluation # None THEN evaluation[1] ELSE status)

\* the loop over self.conditions, from condition i on
RECURSIVE ConditionsStatus(_, _, _, _)
ConditionsStatus(conditions, i, value, status) ==
    IF i > Len(conditions) THEN status
    ELSE LET evaluation == evaluate_value(conditions[i], value)
         IN  ConditionsStatus(conditions, i + 1, value,
                 IF evaluation # None THEN Max(status, evaluation[1]) ELSE status)

ComputedStatus(value) == ConditionsStatus(detector.conditions, 1, value, OK)

\* enqueue_dedupe_update that also sets the key in the ephemeral store
enqueue_dedupe_update_write_through(self, group_key, dedupe_value) ==
    [self EXCEPT !.dedupe_updates = DictSet(@, group_key, dedupe_value),
                 !.redis = RedisSet(@, build_dedupe_value_key(group_key),
                                    dedupe_value, REDIS_TTL)]

enqueue_dedupe_update(self, group_key, dedupe_value) ==
    [self EXCEPT !.dedupe_updates = DictSet(@, group_key, dedupe_value)]

enqueue_counter_update(self, group_key, counters) ==
    [self EXCEPT !.counter_updates = DictSet(@, group_key, counters)]

enqueue_state_update(self, group_key, is_active, priority) ==
    [self EXCEPT !.state_updates = DictSet(@, group_key, <<is_active, priority>>)]

\* the guard with `<` for `<=`
AlreadyProcessed_strict(dedupe_value, state_data) ==
    dedupe_value < state_data.dedupe_value

\* `if dedupe_value <= state_data.dedupe_value`
AlreadyProcessed(dedupe_value, state_data) == dedupe_value <= state_data.dedupe_value

\* the comparison with `and` for `or`
StateChanged_both(state_data, is_active, status) ==
    state_data.active # is_active /\ state_data.status # status

\* `if state_data.active != is_active or state_data.status != status`
StateChanged(state_data, is_active, status) ==
    state_data.active # is_active \/ state_data.status # status

\* evaluate_group_key_value with the condition-group check moved in front of
\* enqueue_dedupe_update
evaluate_group_key_value_group_first(self, group_key, value, state_data, dedupe_value) ==
    IF AlreadyProcessed(dedupe_value, state_data) THEN self
    ELSE IF ~detector.condition_group THEN self
    ELSE LET s1 == enqueue_dedupe_update(self, group_key, dedupe_value)
             status == ComputedStatus(value)
             is_active == status # OK
             s2 == enqueue_counter_update(s1, group_key, EmptyDict)
         IN  IF StateChanged(state_data, is_active, status)
             THEN [enqueue_state_update(s2, group_key, is_active, status)
                    EXCEPT !.results = Append(@,
                         [group_key |-> group_key, is_active |-> is_active,
                          priority |-> status, data |-> EmptyDict])]
             ELSE s2

\* evaluate_group_key_value without the condition-group check
evaluate_group_key_value_no_group_check(self, group_key, value, state_data, dedupe_value) ==
    IF AlreadyProcessed(dedupe_value, state_data) THEN self
    ELSE LET s1 == enqueue_dedupe_update(self, group_key, dedupe_value)
             status == ComputedStatus(value)
             is_active == status # OK
             s2 == enqueue_counter_update(s1, group_key, EmptyDict)
         IN  IF StateChanged(state_data, is_active, status)
             THEN [enqueue_state_update(s2, group_key, is_active, status)
                    EXCEPT !.results = Append(@,
                         [group_key |-> group_key, is_active |-> is_active,
                          priority |-> status, data |-> EmptyDict])]
             ELSE s2

\* returns self after the call, the result (if there is one) appended to
\* self.results
evaluate_group_key_value(self, group_key, value, state_data, dedupe_value) ==
    IF AlreadyProcessed(dedupe_value, state_data) THEN self
    ELSE LET s1 == enqueue_dedupe_update(self, group_key, dedupe_value)
         IN  IF ~detector.condition_group THEN s1
             ELSE LET status == ComputedStatus(value)
                      is_active == status # OK
                      s2 == enqueue_counter_update(s1, group_key, EmptyDict)
                  IN  IF StateChanged(state_data, is_active, status)
                      THEN [enqueue_state_update(s2, group_key, is_active, status)
                             EXCEPT !.results = Append(@,
                                  [group_key |-> group_key, is_active |-> is_active,
                                   priority |-> status, data |-> EmptyDict])]
                      ELSE s2

\* the loop of evaluate over group_values.items(), from item i on
RECURSIVE EvaluateLoop(_, _, _, _, _)
EvaluateLoop(self, group_values, i, all_state_data, dedupe_value) ==
    IF i > Len(group_values) THEN self
    ELSE EvaluateLoop(
            evaluate_group_key_value(self, group_values[i][1], group_values[i][2],
                                     all_state_data[group_values[i][1]], dedupe_value),
            group_values, i + 1, all_state_data, dedupe_value)

(***************************************************************************)
(* StatefulDetectorHandler._bulk_commit_detector_state                     *)
(***************************************************************************)
\* the DetectorState objects queued for bulk_create, in iteration order
RECURSIVE CreatedStates(_, _, _)
CreatedStates(updates, lookup, i) ==
    IF i > Len(updates) THEN <<>>
    ELSE LET gk == updates[i][1]
             rest == CreatedStates(updates, lookup, i + 1)
         IN  IF gk \notin DOMAIN lookup
             THEN <<[detector_group_key |-> gk, active |-> updates[i][2][1],
                     state |-> updates[i][2][2]]>> \o rest
             ELSE rest

\* the fetched rows queued for bulk_update, with their new field values
RECURSIVE UpdatedStates(_, _, _, _)
UpdatedStates(table, updates, lookup, i) ==
    IF i > Len(updates) THEN <<>>
    ELSE LET gk == updates[i][1]
             active == updates[i][2][1]
             priority == updates[i][2][2]
             rest == UpdatedStates(table, updates, lookup, i + 1)
         IN  IF gk \in DOMAIN lookup
                /\ (active # table[gk][lookup[gk]].active
                    \/ priority # table[gk][lookup[gk]].state)
             THEN <<[detector_group_key |-> gk, pk |-> lookup[gk], active |-> active,
                     state |-> priority]>> \o rest
             ELSE rest

\* the table with one new row per object
RECURSIVE InsertRows(_, _)
InsertRows(table, created) ==
    IF created = <<>> THEN table
    ELSE LET c == Head(created)
         IN  InsertRows(
                [table EXCEPT ![c.detector_group_key] =
                    Append(@, [active |-> c.active, state |-> c.state])],
                Tail(created))

\* variant: a table without the key on (detector, detector_group_key)
bulk_create_without_key(table, created) ==
    [raised |-> FALSE, table |-> InsertRows(table, created)]

\* DetectorState.objects.bulk_create: one INSERT statement for all objects.
\* The table is keyed by (detector, detector_group_key), the no-group value
\* included: when one of the keys already has a row the statement raises
\* (IntegrityError) and inserts nothing.
bulk_create(table, created) ==
    IF \E i \in DOMAIN created : table[created[i].detector_group_key] # <<>>
    THEN [raised |-> TRUE, table |-> table]
    ELSE [raised |-> FALSE, table |-> InsertRows(table, created)]

\* variant: bulk_update with the field list ["active"]
RECURSIVE bulk_update_active_only(_, _)
bulk_update_active_only(table, updated) ==
    IF updated = <<>> THEN table
    ELSE LET u == Head(updated)
         IN  bulk_update_active_only(
                [table EXCEPT ![u.detector_group_key][u.pk].active = u.active],
                Tail(updated))

\* DetectorState.objects.bulk_update(..., ["active", "state"]): by primary key
RECURSIVE bulk_update(_, _)
bulk_update(table, updated) ==
    IF updated = <<>> THEN table
    ELSE LET u == Head(updated)
         IN  bulk_update(
                [table EXCEPT ![u.detector_group_key][u.pk] =
                    [active |-> u.active, state |-> u.state]],
                Tail(updated))

StateUpdateKeys(updates) == [i \in DOMAIN updates |-> updates[i][1]]

(***************************************************************************)
(* StatefulDetectorHandler._bulk_commit_redis_state                        *)
(***************************************************************************)
DedupeCommands(dedupes) ==
    [i \in DOMAIN dedupes |->
        [op |-> "set", key |-> build_dedupe_value_key(dedupes[i][1]),
         value |-> dedupes[i][2], ex |-> REDIS_TTL]]

\* variant: `if not counter_value`, so that a counter of 0 is deleted too
CounterCommand_falsy_deletes(group_key, item) ==
    IF item[2] = None \/ item[2] = Some(0)
    THEN [op |-> "delete", key |-> build_counter_value_key(group_key, item[1]),
          value |-> 0, ex |-> 0]
    ELSE [op |-> "set", key |-> build_counter_value_key(group_key, item[1]),
          value |-> item[2][1], ex |-> REDIS_TTL]

CounterCommand(group_key, item) ==
    IF item[2] = None
    THEN [op |-> "delete", key |-> build_counter_value_key(group_key, item[1]),
          value |-> 0, ex |-> 0]
    ELSE [op |-> "set", key |-> build_counter_value_key(group_key, item[1]),
          value |-> item[2][1], ex |-> REDIS_TTL]

RECURSIVE CounterCommands(_, _)
CounterCommands(counters, i) ==
    IF i > Len(counters) THEN <<>>
    ELSE [j \in DOMAIN counters[i][2] |-> CounterCommand(counters[i][1], counters[i][2][j])]
         \o CounterCommands(counters, i + 1)

\* the pipeline without the dedupe commands
CommitRedisState_counters_only(store, dedupes, counters) ==
    PipelineExecute(store, CounterCommands(counters, 1))

CommitRedisState(store, dedupes, counters) ==
    PipelineExecute(store, DedupeCommands(dedupes) \o CounterCommands(counters, 1))

(***************************************************************************)
(* State machine.                                                          *)
(***************************************************************************)
EmptyTable == [gk \in DetectorGroupKeys |-> <<>>]
EmptyStore == [k \in {} |-> [value |-> "", ex |-> 0]]

\* rows a detector can have kept from the time before its condition group
\* was removed
LeftoverTables ==
    {EmptyTable, [EmptyTable EXCEPT ![None] = <<[active |-> TRUE, state |-> LOW]>>]}

Idle == [pc |-> "idle", created |-> <<>>, updated |-> <<>>]
Done == [pc |-> "done", created |-> <<>>, updated |-> <<>>]

\* the record of a call: `packet` is the packet of the most recent evaluate;
\* `fetched` is what get_state_data returned, of a failed commit the store
\* call that raised, of a successful retry of a failed commit "retried", and
\* of the pure operations their input;
\* `single` tells of a commit that it (or the commits it repeats) followed
\* the most recent evaluate directly, no key expiring in between, and
\* flushed at most that one evaluate call;
\* `repeat` tells of an evaluate that the call before it was a commit that
\* followed an evaluate of the same packet, and of a commit that the call
\* before it was a commit
Call(op, h, packet, results, error, fetched, single, repeat) ==
    [op |-> op, h |-> h, packet |-> packet, results |-> results, error |-> error,
     fetched |-> fetched, single |-> single, repeat |-> repeat]

InitHandlers ==
    /\ detector \in Detectors
    /\ universe \in KeyUniverses
    /\ redis = EmptyStore
    /\ detectorstate_set \in
            IF detector.condition_group THEN {EmptyTable} ELSE LeftoverTables
    /\ dedupe_updates = [h \in Handlers |-> EmptyDict]
    /\ counter_updates = [h \in Handlers |-> EmptyDict]
    /\ state_updates = [h \in Handlers |-> EmptyDict]
    /\ pending = [h \in Handlers |-> 0]
    /\ txn = [h \in Handlers |-> Idle]
    /\ last = Call("init", 0, NoPacket, <<>>, FALSE, <<>>, FALSE, FALSE)
    /\ in_order = TRUE
    /\ apigrant = None
    /\ apitoken = <<>>
    /\ exchanger = [e \in Exchangers |-> NewExchanger]
    /\ installation = TRUE

Init == InitHandlers /\ committed = None

\* evaluate(data_packet) of handler h from the point where get_state_data has
\* returned all_state_data: the loop over the group values, what it stages
\* and what the call returns
EvaluateGroupValues(h, data_packet, all_state_data) ==
    \E self \in
            {IF all_state_data.error THEN <<>>
             ELSE EvaluateLoop(
                    [dedupe_updates |-> dedupe_updates[h],
                     counter_updates |-> counter_updates[h],
                     state_updates |-> state_updates[h],
                     redis |-> redis,
                     results |-> <<>>],
                    data_packet.group_values, 1, all_state_data.value,
                    data_packet.dedupe_value)} :
         IF all_state_data.error
         THEN /\ last' = Call("evaluate", h, data_packet, <<>>, TRUE, <<>>, FALSE,
                           last.op = "commit" /\ last.packet = data_packet)
              /\ UNCHANGED <<dedupe_updates, counter_updates, state_updates,
                             pending, redis>>
         ELSE /\ dedupe_updates' = [dedupe_updates EXCEPT ![h] = self.dedupe_updates]
              /\ counter_updates' = [counter_updates EXCEPT ![h] = self.counter_updates]
              /\ state_updates' = [state_updates EXCEPT ![h] = self.state_updates]
              /\ redis' = self.redis
              /\ pending' = [pending EXCEPT ![h] = @ + 1]
              /\ last' = Call("evaluate", h, data_packet, self.results, FALSE, <<>>,
                           FALSE, last.op = "commit" /\ last.packet = data_packet)

\* handler h runs evaluate(data_packet), no other handler running meanwhile.
\* pending[h] < MaxPending bounds the evaluate calls between two commits; an
\* evaluate after a commit that failed ends the retrying of that commit.
Evaluate(h, data_packet) ==
    LET group_values == data_packet.group_values
        group_keys == [i \in DOMAIN group_values |-> group_values[i][1]]
    IN  /\ pending[h] < MaxPending
        /\ txn[h].pc \in {"idle", "failed"}
        /\ \E lookup \in bulk_get_detector_state(detectorstate_set, group_keys) :
            \E all_state_data \in
                    {get_state_data(redis, detectorstate_set, lookup, group_keys)} :
                EvaluateGroupValues(h, data_packet, all_state_data)
        /\ in_order' =
              /\ in_order
              /\ last.op \in {"init", "commit"}
              /\ last.op = "commit" =>
                    data_packet.dedupe_value > last.packet.dedupe_value
        /\ txn' = [txn EXCEPT ![h] = Idle]
        /\ UNCHANGED <<detector, universe, detectorstate_set,
                       apigrant, apitoken, exchanger, installation, committed>>

\* _bulk_commit_detector_state of handler h, its store calls succeeding and
\* nothing else running between its fetch and its bulk_create
bulk_commit_detector_state(h) ==
    /\ \E lookup \in bulk_get_detector_state(detectorstate_set,
                                             StateUpdateKeys(state_updates[h])) :
          LET inserted == bulk_create(detectorstate_set,
                                      CreatedStates(state_updates[h], lookup, 1))
          IN  /\ ~inserted.raised
              /\ detectorstate_set' =
                    bulk_update(inserted.table,
                                UpdatedStates(detectorstate_set, state_updates[h],
                                              lookup, 1))
    /\ state_updates' = [state_updates EXCEPT ![h] = EmptyDict]

\* the last committed watermarks once the SETs of `dedupes` have run
RECURSIVE CommittedWatermarks(_, _, _)
CommittedWatermarks(stored, dedupes, i) ==
    IF stored = None \/ i > Len(dedupes) THEN stored
    ELSE CommittedWatermarks(
            [stored EXCEPT ![dedupes[i][1]] = Some(dedupes[i][2])],
            dedupes, i + 1)

\* _bulk_commit_redis_state without the two clear() calls
bulk_commit_redis_state_keep(h) ==
    /\ redis' = CommitRedisState(redis, dedupe_updates[h], counter_updates[h])
    /\ committed' = CommittedWatermarks(committed, dedupe_updates[h], 1)
    /\ UNCHANGED <<dedupe_updates, counter_updates>>

\* _bulk_commit_redis_state of handler h, pipeline.execute() succeeding
bulk_commit_redis_state(h) ==
    /\ redis' = CommitRedisState(redis, dedupe_updates[h], counter_updates[h])
    /\ committed' = CommittedWatermarks(committed, dedupe_updates[h], 1)
    /\ dedupe_updates' = [dedupe_updates EXCEPT ![h] = EmptyDict]
    /\ counter_updates' = [counter_updates EXCEPT ![h] = EmptyDict]

\* handler h runs commit_state_updates(), every store call succeeding
Commit(h) ==
    /\ txn[h].pc = "idle"
    /\ bulk_commit_detector_state(h)
    /\ bulk_commit_redis_state(h)
    /\ pending' = [pending EXCEPT ![h] = 0]
    /\ last' = Call("commit", h, last.packet, <<>>, FALSE, <<>>,
                    IF last.op = "commit" THEN last.single
                    ELSE last.op = "evaluate" /\ pending[h] <= 1,
                    last.op = "commit")
    /\ in_order' = (in_order /\ last.op = "evaluate")
    /\ UNCHANGED <<detector, universe, txn,
                   apigrant, apitoken, exchanger, installation>>

\* handler h runs get_state_data(group_keys)
GetStateData(h, group_keys) ==
    /\ \E lookup \in bulk_get_detector_state(detectorstate_set, group_keys) :
          \E r \in {get_state_data(redis, detectorstate_set, lookup, group_keys)} :
              last' = Call("get_state_data", h,
                           [NoPacket EXCEPT !.group_values =
                               [i \in DOMAIN group_keys |-> <<group_keys[i], 0>>]],
                           <<>>, r.error, r.value, FALSE, FALSE)
    /\ in_order' = FALSE
    /\ UNCHANGED <<detector, universe, redis, detectorstate_set, dedupe_updates,
                   counter_updates, state_updates, pending, txn,
                   apigrant, apitoken, exchanger, installation, committed>>

\* a key of the ephemeral store reaches the end of its time to live (every
\* key is set with ex=REDIS_TTL) and the store drops it.  A commit that
\* failed and is retried after a key expired is a new first attempt.
KeyExpires(key) ==
    /\ key \in RedisExpiring(redis)
    /\ redis' = RedisDelete(redis, key)
    /\ txn' = [h \in Handlers |-> IF txn[h].pc = "failed" THEN Idle ELSE txn[h]]
    /\ last' = Call("expire", 0, last.packet, <<>>, FALSE, <<>>, FALSE, FALSE)
    /\ in_order' = FALSE
    /\ UNCHANGED <<detector, universe, detectorstate_set, dedupe_updates,
                   counter_updates, state_updates, pending,
                   apigrant, apitoken, exchanger, installation, committed>>

\* one handler instance used for every evaluate -> commit cycle
Next ==
    \/ \E p \in PacketsOf[universe] : Evaluate(1, p)
    \/ Commit(1)
    \/ \E key \in DOMAIN redis : KeyExpires(key)

Spec == Init /\ [][Next]_vars

\* the same runs, each ended by one get_state_data call (which changes no
\* state of the handler or of the stores)
NextFetch ==
    \/ last.op # "get_state_data" /\ \E p \in PacketsOf[universe] : Evaluate(1, p)
    \/ last.op # "get_state_data" /\ Commit(1)
    \/ last.op # "get_state_data" /\ \E ks \in KeyListsOf[universe] : GetStateData(1, ks)
    \/ last.op # "get_state_data" /\ \E key \in DOMAIN redis : KeyExpires(key)

SpecFetch == Init /\ [][NextFetch]_vars

\* the runs of one handler instance on packets of at most one group value
\* of a source that reports no group and the group "g1", with the record of
\* the last committed watermarks kept
InitWatermark ==
    /\ InitHandlers
    /\ universe = {None, Some("g1")}
    /\ committed = [gk \in DetectorGroupKeys |-> None]

NextWatermark ==
    \/ \E p \in SmallPacketsOf[universe] : Evaluate(1, p)
    \/ Commit(1)
    \/ \E key \in DOMAIN redis : KeyExpires(key)

SpecWatermark == InitWatermark /\ [][NextWatermark]_vars

(***************************************************************************)
(* Several handler instances of the same detector, the store calls of      *)
(* evaluate and of commit_state_updates taken one at a time: the query and *)
(* the two pipelines of get_state_data, the fetch of                       *)
(* bulk_get_detector_state, bulk_create, bulk_update, and the redis        *)
(* pipeline.  Nothing in the code holds a lock or a transaction over them. *)
(***************************************************************************)
\* bulk_get_detector_state and the loop that fills created_detector_states
\* and updated_detector_states
CommitFetch(h) ==
    /\ txn[h].pc = "idle"
    /\ pending[h] > 0
    /\ \E lookup \in bulk_get_detector_state(detectorstate_set,
                                             StateUpdateKeys(state_updates[h])) :
          txn' = [txn EXCEPT ![h] =
                    [pc |-> "fetched",
                     created |-> CreatedStates(state_updates[h], lookup, 1),
                     updated |-> UpdatedStates(detectorstate_set, state_updates[h],
                                               lookup, 1)]]
    /\ UNCHANGED <<detector, universe, redis, detectorstate_set, dedupe_updates,
                   counter_updates, state_updates, pending, last, in_order,
                   apigrant, apitoken, exchanger, installation, committed>>

\* `if created_detector_states: DetectorState.objects.bulk_create(...)`.
\* When another handler has created a row of one of the keys since the
\* fetch, bulk_create raises and commit_state_updates ends there, everything
\* still staged; the caller may call commit_state_updates again.
CommitCreate(h) ==
    /\ txn[h].pc = "fetched"
    /\ LET inserted == bulk_create(detectorstate_set, txn[h].created)
       IN  IF inserted.raised
           THEN /\ txn' = [txn EXCEPT ![h] = Idle]
                /\ last' = Call("commit", h, last.packet, <<>>, TRUE, <<"create">>,
                                FALSE, FALSE)
                /\ in_order' = FALSE
                /\ UNCHANGED detectorstate_set
           ELSE /\ detectorstate_set' = inserted.table
                /\ txn' = [txn EXCEPT ![h].pc = "created"]
                /\ UNCHANGED <<last, in_order>>
    /\ UNCHANGED <<detector, universe, redis, dedupe_updates, counter_updates,
                   state_updates, pending,
                   apigrant, apitoken, exchanger, installation, committed>>

\* `if updated_detector_states: DetectorState.objects.bulk_update(...)` and
\* `self.state_updates.clear()`
CommitUpdate(h) ==
    /\ txn[h].pc = "created"
    /\ detectorstate_set' = bulk_update(detectorstate_set, txn[h].updated)
    /\ state_updates' = [state_updates EXCEPT ![h] = EmptyDict]
    /\ txn' = [txn EXCEPT ![h].pc = "flushed"]
    /\ UNCHANGED <<detector, universe, redis, dedupe_updates, counter_updates,
                   pending, last, in_order,
                   apigrant, apitoken, exchanger, installation, committed>>

\* _bulk_commit_redis_state, which ends commit_state_updates
CommitRedis(h) ==
    /\ txn[h].pc = "flushed"
    /\ bulk_commit_redis_state(h)
    /\ pending' = [pending EXCEPT ![h] = 0]
    /\ txn' = [txn EXCEPT ![h] = Done]
    /\ last' = Call("commit", h, last.packet, <<>>, FALSE, <<>>, FALSE, FALSE)
    /\ in_order' = FALSE
    /\ UNCHANGED <<detector, universe, detectorstate_set, state_updates,
                   apigrant, apitoken, exchanger, installation>>

\* evaluate(data_packet) of handler h, the store round trips of its
\* get_state_data taken one at a time.  First the query of
\* bulk_get_detector_state:
EvaluateQuery(h, data_packet) ==
    LET group_values == data_packet.group_values
        group_keys == [i \in DOMAIN group_values |-> group_values[i][1]]
    IN  /\ pending[h] < MaxPending
        /\ txn[h].pc = "idle"
        /\ \E lookup \in bulk_get_detector_state(detectorstate_set, group_keys) :
              txn' = [txn EXCEPT ![h] =
                        [pc |-> "queried", created |-> <<>>, updated |-> <<>>,
                         packet |-> data_packet,
                         detector_states |-> DetectorStates(detectorstate_set, lookup)]]
        /\ UNCHANGED <<detector, universe, redis, detectorstate_set, dedupe_updates,
                       counter_updates, state_updates, pending, last, in_order,
                       apigrant, apitoken, exchanger, installation, committed>>

\* then pipeline.execute() of the dedupe GETs:
EvaluateDedupe(h) ==
    LET group_values == txn[h].packet.group_values
        group_keys == [i \in DOMAIN group_values |-> group_values[i][1]]
    IN  /\ txn[h].pc = "queried"
        /\ txn' = [txn EXCEPT ![h] =
                    [pc |-> "dedupe_read", created |-> <<>>, updated |-> <<>>,
                     packet |-> @.packet,
                     detector_states |-> @.detector_states,
                     replies |-> DedupeReplies(redis, group_keys)]]
        /\ UNCHANGED <<detector, universe, redis, detectorstate_set, dedupe_updates,
                       counter_updates, state_updates, pending, last, in_order,
                       apigrant, apitoken, exchanger, installation, committed>>

\* then pipeline.execute() of the counter GETs (when the detector declares
\* counter names) and the rest of evaluate, which reads no store
EvaluateCounters(h) ==
    LET group_values == txn[h].packet.group_values
        group_keys == [i \in DOMAIN group_values |-> group_values[i][1]]
    IN  /\ txn[h].pc = "dedupe_read"
        /\ \E all_state_data \in
                {StateData(group_keys, txn[h].detector_states, txn[h].replies,
                           CounterReplies(redis, group_keys))} :
              EvaluateGroupValues(h, txn[h].packet, all_state_data)
        /\ txn' = [txn EXCEPT ![h] = Idle]
        /\ in_order' = FALSE
        /\ UNCHANGED <<detector, universe, detectorstate_set,
                       apigrant, apitoken, exchanger, installation, committed>>

\* each handler instance evaluates one packet, commits, and is dropped
NextConc ==
    \/ \E h \in Handlers : \E p \in SmallPacketsOf[universe] :
          pending[h] = 0 /\ EvaluateQuery(h, p)
    \/ \E h \in Handlers : EvaluateDedupe(h)
    \/ \E h \in Handlers : EvaluateCounters(h)
    \/ \E h \in Handlers : CommitFetch(h)
    \/ \E h \in Handlers : CommitCreate(h)
    \/ \E h \in Handlers : CommitUpdate(h)
    \/ \E h \in Handlers : CommitRedis(h)
    \/ \E key \in DOMAIN redis : KeyExpires(key)

SpecConc == Init /\ [][NextConc]_vars

(***************************************************************************)
(* commit_state_updates with store calls that can fail.  A call aborts at  *)
(* the first store call that raises: the fetch of bulk_get_detector_state, *)
(* bulk_create, bulk_update (each made only with a non-empty list), or     *)
(* pipeline.execute().  The database statements are atomic; a pipeline     *)
(* that raises may have applied any prefix of its commands.  While a       *)
(* commit that failed is being retried, txn[h].goal keeps what a commit    *)
(* without failure would have made of the stores at the first attempt.  An *)
(* evaluate call or the expiry of a key after a failed commit ends its     *)
(* retrying: the next commit is a first attempt again.                     *)
(***************************************************************************)
FailurePoints == {"fetch", "create", "update", "execute"}

\* the commands _bulk_commit_redis_state queues, in order
RedisCommands(dedupes, counters) ==
    DedupeCommands(dedupes) \o CounterCommands(counters, 1)

\* the durable store after _bulk_commit_detector_state without failure
CommittedTable(table, updates, lookup) ==
    bulk_update(bulk_create(table, CreatedStates(updates, lookup, 1)).table,
                UpdatedStates(table, updates, lookup, 1))

\* variant: the redis flush runs before the durable flush, so a call that
\* raises in pipeline.execute() has not touched the durable store
AbortedInRedisFlush_before_durable(store, table, updates, lookup, cmds, k) ==
    [redis |-> PipelineExecute(store, SubSeq(cmds, 1, k)),
     table |-> table,
     state_updates |-> updates]

\* commit_state_updates aborted by the redis flush: the stores and
\* state_updates when the call raises in pipeline.execute() after k commands
AbortedInRedisFlush(store, table, updates, lookup, cmds, k) ==
    [redis |-> PipelineExecute(store, SubSeq(cmds, 1, k)),
     table |-> CommittedTable(table, updates, lookup),
     state_updates |-> EmptyDict]

\* variant: the staged state updates are dropped when the durable flush raises
AbortedInDurableFlush_cleared(store, table, updates, lookup, at) ==
    [redis |-> store,
     table |-> IF at = "update"
               THEN bulk_create(table, CreatedStates(updates, lookup, 1)).table
               ELSE table,
     state_updates |-> EmptyDict]

\* commit_state_updates aborted by the durable flush at store call `at`
AbortedInDurableFlush(store, table, updates, lookup, at) ==
    [redis |-> store,
     table |-> IF at = "update"
               THEN bulk_create(table, CreatedStates(updates, lookup, 1)).table
               ELSE table,
     state_updates |-> updates]

\* handler h runs commit_state_updates() and the store call `at` raises
CommitFails(h, at) ==
    /\ txn[h].pc \in {"idle", "failed"}
    /\ \E lookup \in bulk_get_detector_state(detectorstate_set,
                                             StateUpdateKeys(state_updates[h])) :
        LET updates == state_updates[h]
            cmds == RedisCommands(dedupe_updates[h], counter_updates[h])
        IN  \* a filter on an empty key list is answered without a query
            /\ at = "fetch" => updates # EmptyDict
            /\ at = "create" => CreatedStates(updates, lookup, 1) # <<>>
            /\ at = "update" =>
                    UpdatedStates(detectorstate_set, updates, lookup, 1) # <<>>
            /\ \E k \in IF at = "execute" THEN 0..Len(cmds) ELSE {0} :
                \E after \in
                    IF at = "execute"
                    THEN {AbortedInRedisFlush(redis, detectorstate_set, updates,
                                              lookup, cmds, k)}
                    ELSE {AbortedInDurableFlush(redis, detectorstate_set, updates,
                                                lookup, at)} :
                  /\ redis' = after.redis
                  /\ detectorstate_set' = after.table
                  /\ state_updates' = [state_updates EXCEPT ![h] = after.state_updates]
                  \* the SETs of the dedupe values are the first commands
                  /\ committed' =
                        CommittedWatermarks(
                            committed,
                            SubSeq(dedupe_updates[h], 1,
                                   IF k < Len(dedupe_updates[h]) THEN k
                                   ELSE Len(dedupe_updates[h])),
                            1)
            /\ txn' = [txn EXCEPT ![h] =
                         IF @.pc = "failed" THEN @
                         ELSE [pc |-> "failed", created |-> <<>>, updated |-> <<>>,
                               goal |-> [redis |-> PipelineExecute(redis, cmds),
                                         table |-> CommittedTable(detectorstate_set,
                                                                  updates, lookup)]]]
    /\ last' = Call("commit", h, last.packet, <<>>, TRUE, <<at>>, FALSE,
                    last.op = "commit")
    /\ in_order' = FALSE
    /\ UNCHANGED <<detector, universe, dedupe_updates, counter_updates, pending,
                   apigrant, apitoken, exchanger, installation>>

\* handler h runs commit_state_updates() and every store call succeeds
CommitSucceeds(h) ==
    /\ txn[h].pc \in {"idle", "failed"}
    /\ bulk_commit_detector_state(h)
    /\ bulk_commit_redis_state(h)
    /\ pending' = [pending EXCEPT ![h] = 0]
    /\ txn' = [txn EXCEPT ![h] = Idle]
    /\ last' = Call("commit", h, last.packet, <<>>, FALSE,
                    IF txn[h].pc = "failed" THEN <<"retried">> ELSE <<>>,
                    FALSE, last.op = "commit")
    /\ in_order' = FALSE
    /\ UNCHANGED <<detector, universe,
                   apigrant, apitoken, exchanger, installation>>

NextFail ==
    \/ \E p \in SmallPacketsOf[universe] : Evaluate(1, p)
    \/ CommitSucceeds(1)
    \/ \E at \in FailurePoints : CommitFails(1, at)
    \/ \E key \in DOMAIN redis : KeyExpires(key)

SpecFail == Init /\ [][NextFail]_vars

(***************************************************************************)
(* process_detectors(data_packet, detectors).  A detector of the input has *)
(* no handler (detector_handler is None) or a handler; DetectorHandler     *)
(* .evaluate is abstract, so a handler is given by what its evaluate does  *)
(* with the packet: return a list of results or raise.  logger.error calls *)
(* are collected in a log.                                                 *)
(***************************************************************************)
MaxDetectors == 3

Result(group_key, priority) ==
    [group_key |-> group_key, is_active |-> priority # OK, priority |-> priority,
     data |-> <<>>]

ResultLists ==
    { <<>>,
      <<Result(None, LOW)>>,
      <<Result(Some("g1"), HIGH)>>,
      <<Result(None, LOW), Result(Some("g1"), HIGH)>>,
      <<Result(None, LOW), Result(None, HIGH)>>,
      <<Result(Some("g1"), HIGH), Result(None, OK), Result(Some("g1"), LOW)>> }

HandlerStubs ==
    {[raises |-> FALSE, results |-> rl] : rl \in ResultLists}
        \cup {[raises |-> TRUE, results |-> <<>>]}

DetectorLists ==
    UNION { { [i \in 1..n |-> [id |-> i, detector_handler |-> hs[i]]] :
                hs \in [1..n -> {None} \cup {Some(st) : st \in HandlerStubs}] } :
            n \in 0..MaxDetectors }

\* variant: duplicate group keys are not reported
DuplicateErrors_silent(det, detector_results, j, detector_group_keys) == <<>>

\* the inner loop: one logged error per result whose group key was already
\* seen in this detector's results
RECURSIVE DuplicateErrors(_, _, _, _)
DuplicateErrors(det, detector_results, j, detector_group_keys) ==
    IF j > Len(detector_results) THEN <<>>
    ELSE LET group_key == detector_results[j].group_key
             rest == DuplicateErrors(det, detector_results, j + 1,
                                     detector_group_keys \cup {group_key})
         IN  IF group_key \in detector_group_keys
             THEN <<[detector_id |-> det.id, group_key |-> group_key]>> \o rest
             ELSE rest

\* variant: a detector is listed even when its evaluate returned nothing
AppendResults_always(results, det, detector_results) ==
    Append(results, <<det, detector_results>>)

\* `if detector_results: results.append((det, detector_results))`
AppendResults(results, det, detector_results) ==
    IF detector_results # <<>>
    THEN Append(results, <<det, detector_results>>)
    ELSE results

\* the loop over the detectors from position i on; an exception of
\* handler.evaluate propagates
RECURSIVE ProcessLoop(_, _, _, _, _)
ProcessLoop(data_packet, detectors, i, results, log) ==
    IF i > Len(detectors) THEN [error |-> FALSE, results |-> results, log |-> log]
    ELSE LET det == detectors[i]
             handler == det.detector_handler
         IN  IF handler = None
             THEN ProcessLoop(data_packet, detectors, i + 1, results, log)
             ELSE IF handler[1].raises
             THEN [error |-> TRUE, results |-> <<>>, log |-> log]
             ELSE LET detector_results == handler[1].results
                  IN  ProcessLoop(data_packet, detectors, i + 1,
                                  AppendResults(results, det, detector_results),
                                  log \o DuplicateErrors(det, detector_results, 1, {}))

process_detectors(data_packet, detectors) ==
    ProcessLoop(data_packet, detectors, 1, <<>>, <<>>)

\* a call of process_detectors; it touches neither store nor any handler state
ProcessDetectors(data_packet, detectors) ==
    /\ \E out \in {process_detectors(data_packet, detectors)} :
          last' = Call("process_detectors", 0, data_packet, out.results, out.error,
                       [detectors |-> detectors, log |-> out.log], FALSE, FALSE)
    /\ UNCHANGED <<detector, universe, redis, detectorstate_set, dedupe_updates,
                   counter_updates, state_updates, pending, txn, in_order,
                   apigrant, apitoken, exchanger, installation, committed>>

\* the packets handed to process_detectors
ProcessPackets == {NoPacket, [dedupe_value |-> 1, group_values |-> <<<<None, 1>>>>]}

\* the call is a function of its input: one call per behaviour
NextProcess ==
    /\ last.op # "process_detectors"
    /\ \E data_packet \in ProcessPackets, detectors \in DetectorLists :
          ProcessDetectors(data_packet, detectors)

SpecProcess == Init /\ [][NextProcess]_vars

(***************************************************************************)
(* The status evaluate_group_key_value computes for a value, as a function *)
(* of the handler's condition list.  The lists are all sequences of up to  *)
(* MaxConditions threshold conditions, so every order of a set of          *)
(* conditions occurs.                                                      *)
(***************************************************************************)
MaxConditions == 3

StatusConditions == {Cond(t, r) : t \in {0 - 1, 0}, r \in DetectorPriorityLevel}

ConditionLists == UNION { [1..n -> StatusConditions] : n \in 0..MaxConditions }

\* the status loop of evaluate_group_key_value on a handler with a condition
\* group and the conditions given
ComputeStatus(conditions, value) ==
    /\ last' = Call("status", 0, NoPacket,
                    <<ConditionsStatus(conditions, 1, value, OK)>>, FALSE,
                    [conditions |-> conditions, value |-> value], FALSE, FALSE)
    /\ UNCHANGED <<detector, universe, redis, detectorstate_set, dedupe_updates,
                   counter_updates, state_updates, pending, txn, in_order,
                   apigrant, apitoken, exchanger, installation, committed>>

\* the status is a function of its input: one computation per behaviour
NextStatus ==
    /\ last.op # "status"
    /\ \E conditions \in ConditionLists, value \in Values :
          ComputeStatus(conditions, value)

SpecStatus == Init /\ [][NextStatus]_vars

(***************************************************************************)
(* Counters.  evaluate only ever stages an empty counter update, so the    *)
(* counter paths of get_state_data and _bulk_commit_redis_state are driven *)
(* by enqueue_counter_update calls on a handler of a detector with two     *)
(* counter names.  pending counts the calls since the last commit.         *)
(***************************************************************************)
CounterNames == <<"n", "m">>

CounterValues == {None, Some(0), Some(1)}

\* the dicts counter name -> value handed to enqueue_counter_update
CounterDicts ==
    UNION { { [j \in 1..k |-> <<CounterNames[j], vs[j]>>] : vs \in [1..k -> CounterValues] } :
            k \in 0..Len(CounterNames) }

InitCounters ==
    /\ detector = [id |-> "1", condition_group |-> FALSE, conditions |-> <<>>,
                   counter_names |-> CounterNames]
    /\ universe \in KeyUniverses
    /\ redis = EmptyStore
    /\ detectorstate_set = EmptyTable
    /\ dedupe_updates = [h \in Handlers |-> EmptyDict]
    /\ counter_updates = [h \in Handlers |-> EmptyDict]
    /\ state_updates = [h \in Handlers |-> EmptyDict]
    /\ pending = [h \in Handlers |-> 0]
    /\ txn = [h \in Handlers |-> Idle]
    /\ last = Call("init", 0, NoPacket, <<>>, FALSE, <<>>, FALSE, FALSE)
    /\ in_order = TRUE
    /\ apigrant = None
    /\ apitoken = <<>>
    /\ exchanger = [e \in Exchangers |-> NewExchanger]
    /\ installation = TRUE
    /\ committed = None

\* handler h runs enqueue_counter_update(group_key, counters)
EnqueueCounterUpdate(h, group_key, counters) ==
    /\ pending[h] < MaxPending
    /\ \E self \in {enqueue_counter_update(
                        [dedupe_updates |-> dedupe_updates[h],
                         counter_updates |-> counter_updates[h],
                         state_updates |-> state_updates[h],
                         redis |-> redis, results |-> <<>>],
                        group_key, counters)} :
          counter_updates' = [counter_updates EXCEPT ![h] = self.counter_updates]
    /\ pending' = [pending EXCEPT ![h] = @ + 1]
    /\ last' = Call("enqueue_counter_update", h, NoPacket, <<>>, FALSE, <<>>,
                    FALSE, FALSE)
    /\ in_order' = FALSE
    /\ UNCHANGED <<detector, universe, redis, detectorstate_set, dedupe_updates,
                   state_updates, txn,
                   apigrant, apitoken, exchanger, installation, committed>>

NextCounters ==
    \/ /\ last.op # "get_state_data"
       /\ \E gk \in universe, counters \in CounterDicts :
             EnqueueCounterUpdate(1, gk, counters)
    \/ last.op # "get_state_data" /\ Commit(1)
    \/ /\ last.op # "get_state_data"
       /\ \E ks \in KeyListsOf[universe] : GetStateData(1, ks)
    \/ /\ last.op # "get_state_data"
       /\ \E key \in DOMAIN redis : KeyExpires(key)

SpecCounters == InitCounters /\ [][NextCounters]_vars

(***************************************************************************)
(* The staging methods called directly.  enqueue_dedupe_update,            *)
(* enqueue_state_update and evaluate_group_key_value are public methods:   *)
(* a caller can stage what no evaluate call would, and commit flushes it.  *)
(* pending counts the calls since the last commit.                         *)
(***************************************************************************)
\* the DetectorStateData a caller hands to evaluate_group_key_value
StateDatas ==
    {[group_key |-> gk, active |-> st[1], status |-> st[2], dedupe_value |-> d,
      counter_updates |-> EmptyDict] :
        gk \in DetectorGroupKeys, st \in {<<FALSE, OK>>, <<TRUE, LOW>>},
        d \in {0, 1}}

\* a detector with a condition group and one without
InitDirect ==
    /\ detector \in {dt \in Detectors :
                        /\ dt.counter_names = <<"n">>
                        /\ dt.conditions \in {<<>>, <<Cond(0, LOW)>>}}
    /\ universe = {None, Some("g1")}
    /\ redis = EmptyStore
    /\ detectorstate_set = EmptyTable
    /\ dedupe_updates = [h \in Handlers |-> EmptyDict]
    /\ counter_updates = [h \in Handlers |-> EmptyDict]
    /\ state_updates = [h \in Handlers |-> EmptyDict]
    /\ pending = [h \in Handlers |-> 0]
    /\ txn = [h \in Handlers |-> Idle]
    /\ last = Call("init", 0, NoPacket, <<>>, FALSE, <<>>, FALSE, FALSE)
    /\ in_order = TRUE
    /\ apigrant = None
    /\ apitoken = <<>>
    /\ exchanger = [e \in Exchangers |-> NewExchanger]
    /\ installation = TRUE
    /\ committed = None

\* what a method of handler h can reach
Self(h) ==
    [dedupe_updates |-> dedupe_updates[h],
     counter_updates |-> counter_updates[h],
     state_updates |-> state_updates[h],
     redis |-> redis, results |-> <<>>]

\* handler h runs enqueue_dedupe_update(group_key, dedupe_value)
EnqueueDedupeUpdate(h, group_key, dedupe_value) ==
    /\ pending[h] < MaxPending
    /\ \E self \in {enqueue_dedupe_update(Self(h), group_key, dedupe_value)} :
          /\ dedupe_updates' = [dedupe_updates EXCEPT ![h] = self.dedupe_updates]
          /\ redis' = self.redis
    /\ pending' = [pending EXCEPT ![h] = @ + 1]
    /\ last' = Call("enqueue_dedupe_update", h, NoPacket, <<>>, FALSE, <<>>,
                    FALSE, FALSE)
    /\ in_order' = FALSE
    /\ UNCHANGED <<detector, universe, detectorstate_set, counter_updates,
                   state_updates, txn,
                   apigrant, apitoken, exchanger, installation, committed>>

\* handler h runs enqueue_state_update(group_key, is_active, priority)
EnqueueStateUpdate(h, group_key, is_active, priority) ==
    /\ pending[h] < MaxPending
    /\ \E self \in {enqueue_state_update(Self(h), group_key, is_active, priority)} :
          state_updates' = [state_updates EXCEPT ![h] = self.state_updates]
    /\ pending' = [pending EXCEPT ![h] = @ + 1]
    /\ last' = Call("enqueue_state_update", h, NoPacket, <<>>, FALSE, <<>>,
                    FALSE, FALSE)
    /\ in_order' = FALSE
    /\ UNCHANGED <<detector, universe, redis, detectorstate_set, dedupe_updates,
                   counter_updates, txn,
                   apigrant, apitoken, exchanger, installation, committed>>

\* handler h runs evaluate_group_key_value(group_key, value, state_data,
\* dedupe_value); last.results holds the result it returns, if it returns one
EvaluateGroupKeyValue(h, group_key, value, state_data, dedupe_value) ==
    /\ pending[h] < MaxPending
    /\ \E self \in {evaluate_group_key_value(Self(h), group_key, value,
                                             state_data, dedupe_value)} :
          /\ dedupe_updates' = [dedupe_updates EXCEPT ![h] = self.dedupe_updates]
          /\ counter_updates' = [counter_updates EXCEPT ![h] = self.counter_updates]
          /\ state_updates' = [state_updates EXCEPT ![h] = self.state_updates]
          /\ redis' = self.redis
          /\ last' = Call("evaluate_group_key_value", h, NoPacket, self.results,
                          FALSE, <<>>, FALSE, FALSE)
    /\ pending' = [pending EXCEPT ![h] = @ + 1]
    /\ in_order' = FALSE
    /\ UNCHANGED <<detector, universe, detectorstate_set, txn,
                   apigrant, apitoken, exchanger, installation, committed>>

NextDirect ==
    \/ \E gk \in universe, d \in DedupeValues : EnqueueDedupeUpdate(1, gk, d)
    \/ \E gk \in universe, is_active \in BOOLEAN, priority \in {OK, LOW} :
          EnqueueStateUpdate(1, gk, is_active, priority)
    \/ \E gk \in universe, value \in Values, d \in DedupeValues :
          \E state_data \in {sd \in StateDatas : sd.group_key = gk} :
              EvaluateGroupKeyValue(1, gk, value, state_data, d)
    \/ Commit(1)
    \/ \E key \in DOMAIN redis : KeyExpires(key)

SpecDirect == InitDirect /\ [][NextDirect]_vars

(***************************************************************************)
(* GrantExchanger.run (sentry_apps/token_exchange/grant_exchanger.py).     *)
(*                                                                         *)
(* Every instance is constructed with the same grant code, install,        *)
(* client id and user.  run() executes inside transaction.atomic: what it  *)
(* writes becomes visible to other transactions when the block exits       *)
(* normally and is discarded when it exits by an exception; its reads see  *)
(* committed rows.  The update of the SentryAppInstallation row in         *)
(* _create_token takes that row's lock until the transaction ends.         *)
(* `installation` tells whether the SentryAppInstallation row with the id  *)
(* of self.install exists when _create_token looks it up: self.install is  *)
(* an RPC copy and the grant carries its own copy of the installation.     *)
(* `grant` is a cached property: an instance queries the ApiGrant row once *)
(* and keeps the object; Model.delete() clears the primary key of the      *)
(* object it deleted and refuses an object without primary key.            *)
(***************************************************************************)
MaxRuns == 2

\* the ApiGrant rows the code can name: `belongs` is
\* sentry_app_installation.id == install.id, `owned` is
\* application.owner == user, `active` is expires_at > now, `sentry_app`
\* tells whether application.sentry_app finds a SentryApp
Grants ==
    [pk : {Some(1)}, belongs : BOOLEAN, owned : BOOLEAN, active : BOOLEAN,
     sentry_app : BOOLEAN]

\* the property `grant` of an instance whose cache holds `cached`:
\* ApiGrant.objects.get(code=self.code) on the committed row when not cached
CachedGrant(cached, row) == IF cached # None THEN cached ELSE row

\* _validate: Validator(...).run() (validator_ok tells whether it passes),
\* then the grant is looked up and checked; every failure is APIUnauthorized
validate(grant, validator_ok) ==
    IF ~validator_ok THEN "unauthorized"
    ELSE IF grant = None THEN "unauthorized"
    ELSE IF ~grant[1].belongs \/ ~grant[1].owned THEN "unauthorized"
    ELSE IF ~grant[1].active THEN "unauthorized"
    ELSE "ok"

detector_vars ==
    <<detector, universe, redis, detectorstate_set, dedupe_updates,
      counter_updates, state_updates, pending, txn, last, in_order>>

InitGrant ==
    /\ detector = [id |-> "1", condition_group |-> FALSE, conditions |-> <<>>,
                   counter_names |-> <<>>]
    /\ universe = {None, Some("g1")}
    /\ redis = EmptyStore
    /\ detectorstate_set = EmptyTable
    /\ dedupe_updates = [h \in Handlers |-> EmptyDict]
    /\ counter_updates = [h \in Handlers |-> EmptyDict]
    /\ state_updates = [h \in Handlers |-> EmptyDict]
    /\ pending = [h \in Handlers |-> 0]
    /\ txn = [h \in Handlers |-> Idle]
    /\ last = Call("init", 0, NoPacket, <<>>, FALSE, <<>>, FALSE, FALSE)
    /\ in_order = TRUE
    /\ apigrant \in {Some(g) : g \in Grants}
    /\ apitoken = <<>>
    /\ exchanger = [e \in Exchangers |-> NewExchanger]
    /\ installation \in BOOLEAN
    /\ committed = None

\* instance e enters run(): the transaction begins and self._validate()
\* runs.  On APIUnauthorized the handler logs self.application.id and
\* self.grant.id, which looks the grant up as well, and re-raises.
Validate(e, validator_ok) ==
    /\ exchanger[e].pc \in {"new", "returned", "unauthorized", "error"}
    /\ exchanger[e].runs < MaxRuns
    /\ \E grant \in {CachedGrant(exchanger[e].grant, apigrant)} :
          exchanger' = [exchanger EXCEPT ![e] =
              [@ EXCEPT !.pc = IF validate(grant, validator_ok) = "ok"
                               THEN "validated" ELSE "unauthorized",
                        !.grant = grant,
                        !.runs = @ + 1]]
    /\ UNCHANGED <<apigrant, apitoken, installation, committed>>
    /\ UNCHANGED detector_vars

\* the property `sentry_app`: SentryApp.DoesNotExist becomes APIUnauthorized.
\* (`application` returns grant.application, which _validate has already read
\* at _sentry_app_user_owns_grant when _create_token runs.)
sentry_app(grant) == IF grant[1].sentry_app THEN "ok" ELSE "unauthorized"

\* instance e starts _create_token(): the arguments of ApiToken.objects.create
\* are evaluated, self.sentry_app among them, and the token row is inserted
\* in the transaction of e.  APIUnauthorized from self.sentry_app leaves
\* run() through its handler before any row is inserted.
CreateToken(e) ==
    /\ exchanger[e].pc = "validated"
    /\ exchanger' = [exchanger EXCEPT ![e] =
            IF sentry_app(@.grant) = "ok"
            THEN [@ EXCEPT !.pc = "token_inserted", !.token = TRUE]
            ELSE [@ EXCEPT !.pc = "unauthorized"]]
    /\ UNCHANGED <<apigrant, apitoken, installation, committed>>
    /\ UNCHANGED detector_vars

\* instance e finishes _create_token():
\* SentryAppInstallation.objects.get(id=self.install.id).update(api_token=token)
\* writes the installation row, which waits while another transaction holds
\* the lock of that row and keeps the lock until the transaction of e ends;
\* without an installation row DoesNotExist is passed over and no lock taken
UpdateInstallation(e) ==
    /\ exchanger[e].pc = "token_inserted"
    /\ installation => \A o \in Exchangers \ {e} : ~exchanger[o].lock
    /\ exchanger' = [exchanger EXCEPT ![e] =
                        [@ EXCEPT !.pc = "token_created", !.lock = installation]]
    /\ UNCHANGED <<apigrant, apitoken, installation, committed>>
    /\ UNCHANGED detector_vars

\* instance e runs _delete_grant(): self.grant.delete().  Deleting a row
\* that is already gone deletes nothing and raises nothing; an object whose
\* primary key was cleared by an earlier delete() raises ValueError, which
\* leaves run() through transaction.atomic and rolls the token back.
DeleteGrant(e) ==
    /\ exchanger[e].pc = "token_created"
    /\ exchanger' = [exchanger EXCEPT ![e] =
            IF @.grant[1].pk = None
            THEN [@ EXCEPT !.pc = "error", !.token = FALSE, !.lock = FALSE]
            ELSE [@ EXCEPT !.pc = "grant_deleted",
                           !.grant = Some([@[1] EXCEPT !.pk = None])]]
    /\ UNCHANGED <<apigrant, apitoken, installation, committed>>
    /\ UNCHANGED detector_vars

\* instance e leaves transaction.atomic normally: the token row and the
\* deletion of the grant row are committed, and run() returns the token
CommitExchange(e) ==
    /\ exchanger[e].pc = "grant_deleted"
    /\ apitoken' = Append(apitoken, [exchanger |-> e, run |-> exchanger[e].runs])
    /\ apigrant' = None
    /\ exchanger' = [exchanger EXCEPT ![e] =
                        [@ EXCEPT !.pc = "returned", !.token = FALSE, !.lock = FALSE]]
    /\ UNCHANGED <<installation, committed>>
    /\ UNCHANGED detector_vars

NextGrant ==
    \E e \in Exchangers :
        \/ \E validator_ok \in BOOLEAN : Validate(e, validator_ok)
        \/ CreateToken(e)
        \/ UpdateInstallation(e)
        \/ DeleteGrant(e)
        \/ CommitExchange(e)

SpecGrant == InitGrant /\ [][NextGrant]_vars

(***************************************************************************)
(* Observations used by the properties.                                    *)
(***************************************************************************)
\* the dedupe watermark the ephemeral store holds for a group key
Watermark(gk) ==
    LET r == RedisGet(redis, build_dedupe_value_key(gk))
    IN  IF r = None THEN 0 ELSE ParseInt(r[1])

\* the <<active, status>> a read of the durable store can give for a group
\* key: the row the dict of bulk_get_detector_state keeps for it (with several
\* rows of one key, whichever the unordered query returns last), the defaults
\* without a row
DurableStates(gk) ==
    {IF gk \in DOMAIN lookup
     THEN <<detectorstate_set[gk][lookup[gk]].active,
            detectorstate_set[gk][lookup[gk]].state>>
     ELSE <<FALSE, OK>> :
        lookup \in bulk_get_detector_state(detectorstate_set, <<gk>>)}

\* the call returned a result for the group key
Emitted(call, gk) == \E i \in DOMAIN call.results : call.results[i].group_key = gk

\* the entry a staged dict holds for a group key, None when it holds none
StagedFor(d, gk) == IF DictHas(d, gk) THEN Some(DictGet(d, gk)) ELSE None

\* <<active, status>> the conditions give an observation value
Computed(value) == <<ComputedStatus(value) # OK, ComputedStatus(value)>>

NothingStaged ==
    /\ dedupe_updates[1] = EmptyDict
    /\ counter_updates[1] = EmptyDict
    /\ state_updates[1] = EmptyDict

(***************************************************************************)
(* C1.  Evaluating the same data packet twice on one handler yields no     *)
(* result from the second call and the second call stages nothing, whether *)
(* or not commit_state_updates ran between the two calls.                  *)
(* This is the claim as stated; it fails when no commit ran in between.    *)
(***************************************************************************)
C1_RepeatedEvaluateIsNoop ==
    [][(/\ last.op \in {"evaluate", "commit"}
        /\ last'.op = "evaluate"
        /\ last'.packet = last.packet)
       => (/\ last'.results = <<>>
           /\ UNCHANGED <<dedupe_updates, counter_updates, state_updates>>)]_vars

(***************************************************************************)
(* C1, amended.  Evaluating the same data packet again after a             *)
(* commit_state_updates that followed the first call and flushed no other  *)
(* evaluate call yields no result and stages nothing, as long as no dedupe *)
(* key has reached its time to live between the first call and the second. *)
(***************************************************************************)
C1_RepeatAfterCommitIsNoop ==
    [][(/\ last.op = "commit"
        /\ last.single
        /\ last'.op = "evaluate"
        /\ last'.packet = last.packet)
       => (/\ last'.results = <<>>
           /\ UNCHANGED <<dedupe_updates, counter_updates, state_updates>>)]_vars

\* a packet whose first evaluation was committed with a state change has
\* been evaluated again
C1_Witness ==
    /\ last.op = "evaluate" /\ last.repeat /\ ~last.error
    /\ \E i \in DOMAIN last.packet.group_values :
          LET gk == last.packet.group_values[i][1]
          IN  /\ Watermark(gk) = last.packet.dedupe_value
              /\ detectorstate_set[gk] # <<>>
              /\ DurableStates(gk) = {Computed(last.packet.group_values[i][2])}
    /\ NothingStaged

(***************************************************************************)
(* C2.  Once a commit has stored dedupe watermark w for a group key, any   *)
(* later evaluate of a packet with dedupe value d <= w emits no result for *)
(* that group key and adds or changes no entry for it in dedupe_updates,   *)
(* counter_updates and state_updates.                                      *)
(* This is the claim as stated, w being the last committed watermark; it   *)
(* fails once the key has reached its time to live.                        *)
(***************************************************************************)
C2_LastCommittedWatermarkGuards ==
    [][last'.op = "evaluate" =>
          \A i \in DOMAIN last'.packet.group_values :
              LET gk == last'.packet.group_values[i][1]
              IN  (/\ committed[gk] # None
                   /\ last'.packet.dedupe_value <= committed[gk][1]) =>
                      /\ ~Emitted(last', gk)
                      /\ StagedFor(dedupe_updates'[1], gk) = StagedFor(dedupe_updates[1], gk)
                      /\ StagedFor(counter_updates'[1], gk) = StagedFor(counter_updates[1], gk)
                      /\ StagedFor(state_updates'[1], gk) = StagedFor(state_updates[1], gk)]_vars

(***************************************************************************)
(* C2, amended.  An evaluate of a packet whose dedupe value d is at or     *)
(* below the watermark the ephemeral store holds for a group key at that   *)
(* time emits no result for that group key and adds or changes no entry    *)
(* for it in dedupe_updates, counter_updates and state_updates.  The       *)
(* watermark held is what the last commit stored under the key; no         *)
(* evaluate or commit of the handler decreases it, so the guard keeps      *)
(* holding for the packets it has rejected for as long as the store keeps  *)
(* the key.  A key that reached its time to live is dropped and reads as   *)
(* watermark 0: what a commit stored before no longer guards.              *)
(***************************************************************************)
C2_CommittedWatermarkGuards ==
    [][/\ last'.op = "evaluate" =>
            \A i \in DOMAIN last'.packet.group_values :
                LET gk == last'.packet.group_values[i][1]
                IN  last'.packet.dedupe_value <= Watermark(gk) =>
                        /\ ~Emitted(last', gk)
                        /\ StagedFor(dedupe_updates'[1], gk) = StagedFor(dedupe_updates[1], gk)
                        /\ StagedFor(counter_updates'[1], gk) = StagedFor(counter_updates[1], gk)
                        /\ StagedFor(state_updates'[1], gk) = StagedFor(state_updates[1], gk)
       /\ last'.op # "expire" =>
            \A gk \in universe : Watermark(gk)' >= Watermark(gk)]_vars

\* a packet with a positive dedupe value below the watermark a commit has
\* stored for its key, and which the store still holds, has been evaluated,
\* a value that fires the conditions included
C2_Witness ==
    /\ last.op = "evaluate" /\ ~last.error
    /\ detector.condition_group /\ detector.conditions # <<>>
    /\ \E i \in DOMAIN last.packet.group_values :
          LET gk == last.packet.group_values[i][1]
          IN  /\ last.packet.dedupe_value >= 1
              /\ committed[gk] = Some(Watermark(gk))
              /\ last.packet.dedupe_value < Watermark(gk)
              /\ Computed(last.packet.group_values[i][2]) \notin DurableStates(gk)
              /\ ~Emitted(last, gk)

(***************************************************************************)
(* C3.  On a detector with a condition group, for a group key that passes  *)
(* the dedupe guard, evaluate emits a result and stages a state update     *)
(* exactly when the computed is_active or status differs from the          *)
(* active/status committed in the durable store for that key (active=false, *)
(* status=OK without a row); otherwise it emits nothing and stages no      *)
(* state update.  Stated of the evaluate calls that return.                *)
(***************************************************************************)
C3_EmitIffStateDiffers ==
    [][(last'.op = "evaluate" /\ ~last'.error /\ detector.condition_group) =>
          \A i \in DOMAIN last'.packet.group_values :
              LET gk == last'.packet.group_values[i][1]
                  new == Computed(last'.packet.group_values[i][2])
              IN  last'.packet.dedupe_value > Watermark(gk) =>
                      /\ new \notin DurableStates(gk) =>
                           /\ \E j \in DOMAIN last'.results :
                                 /\ last'.results[j].group_key = gk
                                 /\ last'.results[j].is_active = new[1]
                                 /\ last'.results[j].priority = new[2]
                           /\ StagedFor(state_updates'[1], gk) = Some(new)
                      /\ DurableStates(gk) = {new} =>
                           /\ ~Emitted(last', gk)
                           /\ StagedFor(state_updates'[1], gk) =
                                  StagedFor(state_updates[1], gk)]_vars

\* one evaluate passed the guard for two keys: it emitted for one, whose
\* status changed while it stayed active, and not for the other
C3_Witness ==
    /\ last.op = "evaluate" /\ ~last.error /\ detector.condition_group
    /\ \E i, j \in DOMAIN last.packet.group_values :
          LET gi == last.packet.group_values[i][1]
              gj == last.packet.group_values[j][1]
          IN  /\ last.packet.dedupe_value > Watermark(gi)
              /\ last.packet.dedupe_value > Watermark(gj)
              /\ Emitted(last, gi)
              /\ \A s \in DurableStates(gi) : s[1]
              /\ Computed(last.packet.group_values[i][2])[1]
              /\ ~Emitted(last, gj)

(***************************************************************************)
(* C4.  When an evaluate that returns processes a packet whose dedupe      *)
(* value d is greater than the stored watermark of a group key, it stages  *)
(* d for that key, and a commit raises the stored watermark of every key   *)
(* it has a staged dedupe value for, whether or not the detector has a     *)
(* condition group, a condition fired or a result was emitted.             *)
(***************************************************************************)
C4_WatermarkAdvancesOnCommit ==
    [][/\ (last'.op = "evaluate" /\ ~last'.error) =>
             \A i \in DOMAIN last'.packet.group_values :
                 LET gk == last'.packet.group_values[i][1]
                 IN  last'.packet.dedupe_value > Watermark(gk) =>
                        StagedFor(dedupe_updates'[1], gk) = Some(last'.packet.dedupe_value)
       /\ last'.op = "commit" =>
             \A gk \in DictKeys(dedupe_updates[1]) : Watermark(gk)' > Watermark(gk)]_vars

\* a commit has advanced a watermark twice on a detector without a
\* condition group
C4_Witness ==
    /\ last.op = "commit" /\ ~last.repeat
    /\ ~detector.condition_group
    /\ \E gk \in universe : Watermark(gk) = 2

(***************************************************************************)
(* C5.  A detector with no condition group never produces a result and     *)
(* never stages a state update, and no evaluate or commit on it creates or *)
(* changes a durable row.                                                  *)
(***************************************************************************)
C5_NoConditionGroupNoResults ==
    [][~detector.condition_group =>
          /\ last'.results = <<>>
          /\ state_updates'[1] = EmptyDict
          /\ UNCHANGED detectorstate_set]_vars

\* a detector without a condition group, with a durable row that differs
\* from what an evaluation would compute, has evaluated and committed a
\* packet for the key of that row
C5_Witness ==
    /\ ~detector.condition_group
    /\ last.op = "commit"
    /\ detectorstate_set[None] # <<>>
    /\ Watermark(None) >= 1

(***************************************************************************)
(* C8.  When one handler runs evaluate followed by commit_state_updates    *)
(* for each packet of a stream with strictly increasing dedupe values,     *)
(* then after every commit the durable row of each group key of the packet *)
(* equals the (active, status) computed from the packet's value, no row    *)
(* meaning (false, OK), and the key has at most one row.                   *)
(* Stated for a detector with a condition group.  It fails on a detector   *)
(* without named counters, where evaluate raises (see C6), and for the     *)
(* packet of a stream that starts at dedupe value 0.                       *)
(***************************************************************************)
C8_DurableRowFollowsStream ==
    (last.op = "commit" /\ in_order /\ detector.condition_group) =>
        \A i \in DOMAIN last.packet.group_values :
            LET gk == last.packet.group_values[i][1]
            IN  /\ DurableStates(gk) = {Computed(last.packet.group_values[i][2])}
                /\ Len(detectorstate_set[gk]) <= 1

(***************************************************************************)
(* C9.  evaluate changes neither the ephemeral store nor the durable       *)
(* store: every dedupe key, counter key and DetectorState row is the same  *)
(* after an evaluate call as before it.                                    *)
(***************************************************************************)
C9_EvaluateLeavesStoresAlone ==
    [][last'.op = "evaluate" => UNCHANGED <<redis, detectorstate_set>>]_vars

\* two evaluate calls have staged dedupe, counter and state updates while
\* both stores are still empty
C9_Witness ==
    /\ last.op = "evaluate" /\ pending[1] = 2
    /\ dedupe_updates[1] # EmptyDict
    /\ counter_updates[1] # EmptyDict
    /\ state_updates[1] # EmptyDict
    /\ redis = EmptyStore
    /\ detectorstate_set = EmptyTable

(***************************************************************************)
(* C10.  After a commit_state_updates that succeeds, dedupe_updates,       *)
(* counter_updates and state_updates of the handler are empty, and a       *)
(* second commit_state_updates right after it leaves the ephemeral store   *)
(* and the durable store unchanged.                                        *)
(***************************************************************************)
C10_CommitClearsAndRepeats ==
    [][/\ last'.op = "commit" =>
             /\ dedupe_updates'[1] = EmptyDict
             /\ counter_updates'[1] = EmptyDict
             /\ state_updates'[1] = EmptyDict
       /\ (last.op = "commit" /\ last'.op = "commit") =>
             UNCHANGED <<redis, detectorstate_set>>]_vars

\* a commit that wrote to both stores has been followed by a second commit
C10_Witness ==
    /\ last.op = "commit" /\ last.repeat
    /\ NothingStaged
    /\ redis # EmptyStore
    /\ detectorstate_set # EmptyTable
    /\ detector.condition_group

(***************************************************************************)
(* C6.  For any stateful detector, one that declares no named counters     *)
(* included, get_state_data(group_keys) returns without error exactly one  *)
(* DetectorStateData per requested group key, and for a group key with no  *)
(* durable row and no ephemeral entries the snapshot is active=false,      *)
(* status=OK, dedupe_value=0 with every counter absent.                    *)
(* The code raises for a detector without named counters.                  *)
(***************************************************************************)
C6_GetStateDataReturnsDefaults ==
    last.op = "get_state_data" =>
        LET gks == {last.packet.group_values[i][1] : i \in DOMAIN last.packet.group_values}
        IN  /\ ~last.error
            /\ DOMAIN last.fetched = gks
            /\ \A gk \in gks :
                  /\ last.fetched[gk].group_key = gk
                  /\ (/\ detectorstate_set[gk] = <<>>
                      /\ RedisGet(redis, build_dedupe_value_key(gk)) = None
                      /\ \A j \in DOMAIN detector.counter_names :
                            RedisGet(redis, build_counter_value_key(gk,
                                        detector.counter_names[j])) = None)
                     => /\ last.fetched[gk].active = FALSE
                        /\ last.fetched[gk].status = OK
                        /\ last.fetched[gk].dedupe_value = 0
                        /\ \A j \in DOMAIN last.fetched[gk].counter_updates :
                              last.fetched[gk].counter_updates[j][2] = None

C11_RetryReachesFailureFreeCommit ==
    [][ /\ txn'[1].pc = "failed" =>
            /\ dedupe_updates' = dedupe_updates
            /\ counter_updates' = counter_updates
            /\ last'.fetched # <<"execute">> =>
                    /\ state_updates' = state_updates
                    /\ redis' = redis
            /\ last'.fetched = <<"execute">> =>
                    detectorstate_set' = txn'[1].goal.table
        /\ (txn[1].pc = "failed" /\ txn'[1].pc = "idle" /\ last'.op = "commit") =>
            /\ redis' = txn[1].goal.redis
            /\ detectorstate_set' = txn[1].goal.table
            /\ NothingStaged'
        /\ \A gk \in DetectorGroupKeys : Len(detectorstate_set'[gk]) <= 1
      ]_vars

\* a retried commit has succeeded and has written a row and a watermark
C11_Witness ==
    /\ last.op = "commit" /\ ~last.error /\ last.fetched = <<"retried">>
    /\ \E gk \in universe :
          /\ Watermark(gk) > 0
          /\ Len(detectorstate_set[gk]) = 1
          /\ detectorstate_set[gk][1].active


(***************************************************************************)
(* C12 as stated: the redis flush comes first, so whenever a commit aborts *)
(* in the durable flush (fetch, bulk_create or bulk_update raises) the     *)
(* staged dedupe and counter values have already been written to redis.    *)
(***************************************************************************)
C12_EphemeralFlushFirst ==
    [][ (txn'[1].pc = "failed" /\ last'.fetched # <<"execute">>) =>
            redis' = PipelineExecute(redis, RedisCommands(dedupe_updates[1],
                                                          counter_updates[1]))
      ]_vars

(***************************************************************************)
(* C12 amended: the durable flush comes first.  A commit that aborts in    *)
(* the durable flush has written nothing to redis; a commit that aborts in *)
(* the redis flush has already written every staged state update to the   *)
(* durable store and cleared state_updates, while the dedupe and counter   *)
(* updates are still staged.  Checked under SpecFail.                      *)
(***************************************************************************)
C12_DurableFlushFirst ==
    [][ /\ (txn'[1].pc = "failed" /\ last'.fetched # <<"execute">>) =>
            redis' = redis
        /\ (txn'[1].pc = "failed" /\ last'.fetched = <<"execute">>) =>
            /\ \A i \in 1..Len(state_updates[1]) :
                  LET gk == state_updates[1][i][1]
                      staged == state_updates[1][i][2]
                  IN  \E j \in 1..Len(detectorstate_set'[gk]) :
                        /\ detectorstate_set'[gk][j].active = staged[1]
                        /\ detectorstate_set'[gk][j].state = staged[2]
            /\ state_updates'[1] = EmptyDict
            /\ dedupe_updates'[1] = dedupe_updates[1]
            /\ counter_updates'[1] = counter_updates[1]
      ]_vars

\* a commit has aborted in the redis flush: the row is written and active,
\* the watermark staged for its group key is not
C12_Witness ==
    /\ txn[1].pc = "failed" /\ last.op = "commit" /\ last.error
    /\ last.fetched = <<"execute">>
    /\ \E gk \in universe :
          /\ Len(detectorstate_set[gk]) = 1
          /\ detectorstate_set[gk][1].active
          /\ DictHas(dedupe_updates[1], gk)
          /\ DictGet(dedupe_updates[1], gk) > 0
          /\ Watermark(gk) = 0


\* the detectors of a process_detectors input that have a handler whose
\* evaluate returned a non-empty list
HasResults(det) ==
    /\ det.detector_handler # None
    /\ det.detector_handler[1].results # <<>>

\* some handler of the input raises in evaluate
SomeHandlerRaises(detectors) ==
    \E i \in 1..Len(detectors) :
        /\ detectors[i].detector_handler # None
        /\ detectors[i].detector_handler[1].raises

(***************************************************************************)
(* C13: process_detectors returns exactly the (detector, results) pairs of *)
(* the input detectors that have a handler and whose evaluate returned a   *)
(* non-empty list, in input order; a detector without a handler raises     *)
(* nothing (the call raises only when some handler's evaluate raises).     *)
(* Checked under SpecProcess.                                              *)
(***************************************************************************)
C13_ReturnsPairsOfDetectorsWithResults ==
    last.op = "process_detectors" =>
        LET detectors == last.fetched.detectors
            kept == SelectSeq(detectors, HasResults)
        IN  /\ last.error <=> SomeHandlerRaises(detectors)
            /\ ~last.error =>
                  last.results =
                      [i \in 1..Len(kept) |->
                          <<kept[i], kept[i].detector_handler[1].results>>]

\* a call with a detector without handler between two that return results:
\* the two pairs are returned in input order
C13_Witness ==
    /\ last.op = "process_detectors" /\ ~last.error
    /\ Len(last.fetched.detectors) = 3
    /\ last.fetched.detectors[2].detector_handler = None
    /\ Len(last.results) = 2
    /\ last.results[1][1].id = 1 /\ last.results[2][1].id = 3

(***************************************************************************)
(* C14: when a detector's result list has a group key more than once,      *)
(* process_detectors logs an error for that detector and group key, still  *)
(* returns (no handler raising), returns the detector's list as evaluate   *)
(* gave it, and returns the pairs of the later detectors that have         *)
(* results.  Checked under SpecProcess.                                    *)
(***************************************************************************)
C14_DuplicateGroupKeysAreLoggedOnly ==
    (last.op = "process_detectors" /\ ~SomeHandlerRaises(last.fetched.detectors)) =>
        LET detectors == last.fetched.detectors
            Pairs == {last.results[n] : n \in 1..Len(last.results)}
        IN  /\ ~last.error
            /\ \A i \in 1..Len(detectors) :
                  HasResults(detectors[i]) =>
                    LET rs == detectors[i].detector_handler[1].results
                    IN  /\ <<detectors[i], rs>> \in Pairs
                        /\ \A j, k \in 1..Len(rs) :
                              (j < k /\ rs[j].group_key = rs[k].group_key) =>
                                \E n \in 1..Len(last.fetched.log) :
                                    last.fetched.log[n] =
                                        [detector_id |-> detectors[i].id,
                                         group_key |-> rs[k].group_key]

\* the first detector's results repeat a group key, a later detector has
\* results, both are returned and an error is logged
C14_Witness ==
    /\ last.op = "process_detectors" /\ ~last.error
    /\ Len(last.fetched.detectors) >= 2
    /\ LET rs == last.results[1][2]
       IN  /\ Len(last.results) >= 2
           /\ last.results[1][1].id = 1
           /\ Len(rs) = 3 /\ rs[1].group_key = rs[3].group_key
           /\ last.results[2][1].id > 1
    /\ Len(last.fetched.log) >= 1


(***************************************************************************)
(* C15: active = (status # OK) in every result evaluate returns, in every  *)
(* staged state update and in every row of the durable store, whatever     *)
(* evaluate and commit calls were made.  Checked under Spec.               *)
(***************************************************************************)
C15_ActiveIffStatusAboveOK ==
    /\ (last.op = "evaluate" /\ ~last.error) =>
          \A n \in 1..Len(last.results) :
              last.results[n].is_active = (last.results[n].priority # OK)
    /\ \A i \in 1..Len(state_updates[1]) :
          state_updates[1][i][2][1] = (state_updates[1][i][2][2] # OK)
    /\ \A gk \in DetectorGroupKeys :
          \A j \in 1..Len(detectorstate_set[gk]) :
              detectorstate_set[gk][j].active = (detectorstate_set[gk][j].state # OK)

\* a commit has updated an active row to inactive with status OK while the
\* row of another group key is active with status LOW
C15_Witness ==
    /\ last.op = "commit"
    /\ \E gk1, gk2 \in universe :
          /\ detectorstate_set[gk1] = <<[active |-> FALSE, state |-> OK]>>
          /\ detectorstate_set[gk2] = <<[active |-> TRUE, state |-> LOW]>>


\* the priorities the conditions of a list return for a value
ReturnedPriorities(conditions, value) ==
    {evaluate_value(conditions[i], value)[1] :
        i \in {j \in 1..Len(conditions) : evaluate_value(conditions[j], value) # None}}

(***************************************************************************)
(* C16: the computed status is the maximum of the priorities the           *)
(* conditions return for the value, and OK when none returns one (an empty *)
(* list included).  The right-hand side depends only on the set of         *)
(* returned priorities, so the status is the same for every order of the   *)
(* conditions.  Checked under SpecStatus.                                  *)
(***************************************************************************)
C16_StatusIsMaxOfReturnedPriorities ==
    last.op = "status" =>
        LET returned == ReturnedPriorities(last.fetched.conditions, last.fetched.value)
        IN  last.results[1] =
                IF returned = {} THEN OK
                ELSE CHOOSE m \in returned : \A x \in returned : x <= m

\* HIGH is returned by the first of three conditions and is the status,
\* although a later condition returns LOW and another returns nothing
C16_Witness ==
    /\ last.op = "status"
    /\ Len(last.fetched.conditions) = 3
    /\ evaluate_value(last.fetched.conditions[1], last.fetched.value) = Some(HIGH)
    /\ evaluate_value(last.fetched.conditions[2], last.fetched.value) = None
    /\ evaluate_value(last.fetched.conditions[3], last.fetched.value) = Some(LOW)
    /\ last.results = <<HIGH>>


(***************************************************************************)
(* C17: the dedupe watermark stored in redis for a group key never         *)
(* decreases in any step of any interleaving of the evaluate and commit    *)
(* steps of several handler instances of the detector; the step in which a *)
(* key expires is left aside.  Stated under SpecConc.                      *)
(***************************************************************************)
C17_WatermarkNeverDecreases ==
    [][ last'.op # "expire" =>
            \A gk \in DetectorGroupKeys : Watermark(gk)' >= Watermark(gk) ]_vars


\* the value of a counter in a store: None when its key is absent
StoredCounter(store, gk, name) ==
    LET r == RedisGet(store, build_counter_value_key(gk, name))
    IN  IF r = None THEN None ELSE Some(ParseInt(r[1]))

\* the staged counter entries <<group key, name, value>> of a handler, in
\* the iteration order of the two dicts
RECURSIVE StagedCounters(_, _)
StagedCounters(counters, i) ==
    IF i > Len(counters) THEN <<>>
    ELSE [j \in DOMAIN counters[i][2] |->
             <<counters[i][1], counters[i][2][j][1], counters[i][2][j][2]>>]
         \o StagedCounters(counters, i + 1)

(***************************************************************************)
(* C18: for a detector with counter names, get_state_data reports for each *)
(* (group key, counter name) the value stored under that pair's key: None  *)
(* when the key is absent, the integer stored otherwise (0 for a stored    *)
(* zero); a commit deletes the key of a counter staged as None (an absent  *)
(* key stays absent), sets the key of a counter staged as an integer (a    *)
(* key staged more than once gets what was staged last), and leaves the    *)
(* counter keys that are not staged alone.  Checked under SpecCounters.    *)
(***************************************************************************)
C18_CountersFetchedAndCommitted ==
    [][ /\ (last'.op = "get_state_data") =>
            /\ ~last'.error
            /\ \A gk \in DOMAIN last'.fetched :
                  last'.fetched[gk].counter_updates =
                      [j \in 1..Len(CounterNames) |->
                          <<CounterNames[j], StoredCounter(redis, gk, CounterNames[j])>>]
        /\ (last'.op = "commit") =>
            LET staged == StagedCounters(counter_updates[1], 1)
                Key(e) == build_counter_value_key(e[1], e[2])
            IN  \A gk \in universe : \A j \in 1..Len(CounterNames) :
                  LET key == build_counter_value_key(gk, CounterNames[j])
                      at == {n \in 1..Len(staged) : Key(staged[n]) = key}
                  IN  StoredCounter(redis', gk, CounterNames[j]) =
                          IF at = {}
                          THEN StoredCounter(redis, gk, CounterNames[j])
                          ELSE staged[CHOOSE n \in at : \A o \in at : o <= n][3]
      ]_vars

\* get_state_data has returned counter n as 0 and counter m as unset for
\* one group key, and n as unset and m as 1 for another
C18_Witness ==
    /\ last.op = "get_state_data" /\ ~last.error
    /\ \E gk1, gk2 \in DOMAIN last.fetched :
          /\ last.fetched[gk1].counter_updates = <<<<"n", Some(0)>>, <<"m", None>>>>
          /\ last.fetched[gk2].counter_updates = <<<<"n", None>>, <<"m", Some(1)>>>>


(***************************************************************************)
(* C19: a commit that follows evaluate calls on one handler leaves, for    *)
(* each group key, the durable (active, status) that the last evaluate     *)
(* call which passed the dedupe guard for that key computed.  Stated for   *)
(* the group keys that passed the guard in the evaluate call made just     *)
(* before the commit, on a detector with a condition group, under Spec.    *)
(***************************************************************************)
C19_CommittedStateIsLastEvaluated ==
    [][ (/\ last.op = "evaluate" /\ ~last.error
         /\ last'.op = "commit"
         /\ detector.condition_group) =>
            \A i \in 1..Len(last.packet.group_values) :
                LET gk == last.packet.group_values[i][1]
                    value == last.packet.group_values[i][2]
                IN  last.packet.dedupe_value > Watermark(gk) =>
                        DurableStates(gk)' = {Computed(value)}
      ]_vars


(***************************************************************************)
(* C20: different group keys of a detector never share a redis key, so a   *)
(* commit changes the watermark get_state_data returns only for the group  *)
(* keys it has a staged dedupe value for; the watermark of every other     *)
(* group key (None, the empty string or any other string) is unchanged.    *)
(* Stated under Spec.                                                      *)
(***************************************************************************)
C20_CommitLeavesOtherWatermarks ==
    [][ last'.op = "commit" =>
            \A gk \in DetectorGroupKeys :
                ~DictHas(dedupe_updates[1], gk) => Watermark(gk)' = Watermark(gk)
      ]_vars


(***************************************************************************)
(* C21: a grant code is exchanged at most once.  Over every sequence and   *)
(* interleaving of run() calls with the same code at most one token is     *)
(* issued, and once a token is issued the grant row is deleted.  Stated    *)
(* under SpecGrant.                                                        *)
(***************************************************************************)
C21_GrantExchangedAtMostOnce ==
    /\ Len(apitoken) <= 1
    /\ apitoken # <<>> => apigrant = None

====
